---- MODULE Spec2Model ----
(***************************************************************************)
(* Forecasting and inventory decision engine of Salezy: the forecasting    *)
(* utilities (calculateMetrics, the three models, selectBestModel,         *)
(* calculateInventoryRecommendation) and the ForecastDashboard component   *)
(* that drives them.                                                       *)
(*                                                                         *)
(* Numbers.  The source computes in JavaScript doubles.  A number is kept  *)
(* here as an exact fraction [num, den] in lowest terms with den > 0; the  *)
(* value 0/0 is NaN and +-1/0 are the infinities, produced by division as  *)
(* the source produces them.  Quantities, stock levels and prediction      *)
(* values, which the source keeps integral, are plain integers.            *)
(* Math.round(x) is floor(x + 1/2).  Math.sqrt is not computed: rmse is    *)
(* kept as its square (field rmseSq), which is 0 / NaN exactly when rmse   *)
(* is.                                                                     *)
(* The rounding error of double arithmetic is not modelled: where a double *)
(* product falls just beside a .5 tie (6 * 0.3 * 12.5), Math.round in the  *)
(* source can differ by one from the exact value kept here.                *)
(***************************************************************************)
EXTENDS Integers, Sequences, FiniteSets, TLC

VARIABLES
    products,         \* useState<Product[]>
    selectedProduct,  \* useState<Product | null>
    salesData,        \* useState<SalesDataPoint[]>
    forecast,         \* useState<ForecastResult | null>
    recommendation,   \* useState<InventoryRecommendation | null>
    insights,         \* useState<Insight[]>
    businessImpact,   \* useState<BusinessImpact | null>
    loading,          \* useState(false)
    generating,       \* useState(false)
    whatIfStock,      \* useState(0)
    whatIfDiscount,   \* useState(0)
    whatIfResults,    \* useState<any>(null)
    forecasts,        \* rows of the forecasts table, in insertion order
    pending,          \* asynchronous continuations in flight
    last,             \* the handler that ran last and what it decided
    audit,            \* Generate Forecast clicks accepted, and the inserts sent
    call              \* one application of a forecasting utility: input and output

vars == <<products, selectedProduct, salesData, forecast, recommendation,
          insights, businessImpact, loading, generating, whatIfStock,
          whatIfDiscount, whatIfResults, forecasts, pending, last, audit, call>>

dashVars == <<products, selectedProduct, salesData, forecast, recommendation,
              insights, businessImpact, loading, generating, whatIfStock,
              whatIfDiscount, whatIfResults, forecasts, pending, last, audit>>

----------------------------------------------------------------------------
(* Bounds of the model *)

\* quantities sold per day range over 0..MaxQty
MaxQty == 1
\* sales histories have at most MaxLen points
MaxLen == 8
\* sequences handed to calculateMetrics directly have at most MaxSeq entries
MaxSeq == 3

----------------------------------------------------------------------------
(* JavaScript numbers *)

Abs(x) == IF x < 0 THEN -x ELSE x
Min(a, b) == IF a < b THEN a ELSE b
Max(a, b) == IF a > b THEN a ELSE b
Sign(x) == IF x < 0 THEN -1 ELSE IF x > 0 THEN 1 ELSE 0

RECURSIVE GCD(_, _)
GCD(a, b) == IF b = 0 THEN a ELSE GCD(b, a % b)

NaN == [num |-> 0, den |-> 0]

\* the number n / d
R(n, d) ==
    IF d = 0 THEN [num |-> Sign(n), den |-> 0]
    ELSE LET g == GCD(Abs(n), Abs(d))
             s == Sign(d)
         IN  [num |-> (s * n) \div g, den |-> (s * d) \div g]

Num(n) == [num |-> n, den |-> 1]

IsNaN(x) == x.den = 0 /\ x.num = 0
IsFinite(x) == x.den # 0

RAdd(a, b) ==
    IF IsNaN(a) \/ IsNaN(b) THEN NaN
    ELSE IF a.den = 0 /\ b.den = 0 THEN (IF a.num = b.num THEN a ELSE NaN)
    ELSE IF a.den = 0 THEN a
    ELSE IF b.den = 0 THEN b
    ELSE LET g == GCD(a.den, b.den)
         IN  R(a.num * (b.den \div g) + b.num * (a.den \div g), a.den * (b.den \div g))

RNeg(a) == [num |-> -a.num, den |-> a.den]
RSub(a, b) == RAdd(a, RNeg(b))
RMul(a, b) ==
    IF IsNaN(a) \/ IsNaN(b) THEN NaN
    ELSE LET g1 == GCD(Abs(a.num), b.den)
             g2 == GCD(Abs(b.num), a.den)
         IN  IF a.den = 0 \/ b.den = 0 THEN R(a.num * b.num, 0)
             ELSE R((a.num \div g1) * (b.num \div g2), (a.den \div g2) * (b.den \div g1))
RDiv(a, b) ==
    IF IsNaN(a) \/ IsNaN(b) THEN NaN
    ELSE IF b.den = 0 THEN (IF a.den = 0 THEN NaN ELSE Num(0))
    ELSE IF b.num = 0 THEN R(a.num, 0)
    ELSE RMul(a, [num |-> Sign(b.num) * b.den, den |-> Abs(b.num)])
RAbs(a) == [num |-> Abs(a.num), den |-> a.den]

\* a < b, a > b, ... as JavaScript compares: every comparison with NaN is false
RLt(a, b) ==
    /\ ~IsNaN(a) /\ ~IsNaN(b)
    /\ IF a.den = 0 /\ b.den = 0 THEN a.num < b.num
       ELSE IF a.den = 0 THEN a.num < 0
       ELSE IF b.den = 0 THEN b.num > 0
       ELSE a.num * b.den < b.num * a.den
RGt(a, b) == RLt(b, a)
RLe(a, b) == ~IsNaN(a) /\ ~IsNaN(b) /\ ~RLt(b, a)
RGe(a, b) == RLe(b, a)

\* Math.max(a, b): NaN if either is
RMax(a, b) == IF IsNaN(a) \/ IsNaN(b) THEN NaN ELSE IF RLt(a, b) THEN b ELSE a

\* Math.round of a finite number, an integer: floor(x + 1/2)
MathRound(x) == (x.num \div x.den) + (IF 2 * (x.num % x.den) >= x.den THEN 1 ELSE 0)

----------------------------------------------------------------------------
(* utils/forecasting: metrics and the three models *)

\* the object calculateMetrics returns once the loop has summed mae, mse, mape
\* over n pairs; x / 0 is NaN or an infinity as in the source
MetricsOf(mae, mse, mape, n) ==
    [mae    |-> RDiv(Num(mae), Num(n)),
     rmseSq |-> RDiv(Num(mse), Num(n)),
     mape   |-> RMul(RDiv(mape, Num(n)), Num(100))]

\* the loop with the error taken as |actual + predicted|
RECURSIVE MetricsLoop_SignSlip(_, _, _, _, _, _, _)
MetricsLoop_SignSlip(actual, predicted, n, i, mae, mse, mape) ==
    IF i >= n THEN MetricsOf(mae, mse, mape, n)
    ELSE LET error == Abs(actual[i + 1] + predicted[i + 1])
         IN  MetricsLoop_SignSlip(actual, predicted, n, i + 1,
                 mae + error,
                 mse + error * error,
                 IF actual[i + 1] # 0
                 THEN RAdd(mape, RAbs(R(actual[i + 1] + predicted[i + 1], actual[i + 1])))
                 ELSE mape)

\* the loop with the days of zero actual skipped altogether
RECURSIVE MetricsLoop_SkipZero(_, _, _, _, _, _, _)
MetricsLoop_SkipZero(actual, predicted, n, i, mae, mse, mape) ==
    IF i >= n THEN MetricsOf(mae, mse, mape, n)
    ELSE IF actual[i + 1] = 0
    THEN MetricsLoop_SkipZero(actual, predicted, n, i + 1, mae, mse, mape)
    ELSE LET error == Abs(actual[i + 1] - predicted[i + 1])
         IN  MetricsLoop_SkipZero(actual, predicted, n, i + 1,
                 mae + error,
                 mse + error * error,
                 RAdd(mape, RAbs(R(actual[i + 1] - predicted[i + 1], actual[i + 1]))))

\* the loop of calculateMetrics from 0-based index i on (i + 1 in a sequence)
RECURSIVE MetricsLoop(_, _, _, _, _, _, _)
MetricsLoop(actual, predicted, n, i, mae, mse, mape) ==
    IF i >= n THEN MetricsOf(mae, mse, mape, n)
    ELSE LET error == Abs(actual[i + 1] - predicted[i + 1])
         IN  MetricsLoop(actual, predicted, n, i + 1,
                 mae + error,
                 mse + error * error,
                 IF actual[i + 1] # 0
                 THEN RAdd(mape, RAbs(R(actual[i + 1] - predicted[i + 1], actual[i + 1])))
                 ELSE mape)

calculateMetrics(actual, predicted) ==
    MetricsLoop(actual, predicted, Min(Len(actual), Len(predicted)), 0, 0, 0, Num(0))

\* Math.max(0, 100 - metrics.mape)
ConfidenceOf(metrics) == RMax(Num(0), RSub(Num(100), metrics.mape))

\* the date of the forward prediction: the day after the evaluation, which is
\* later than every date of a history
Tomorrow == MaxLen + 1

Values(data) == [i \in 1..Len(data) |-> data[i].quantity_sold]

\* arr.slice(from, to) for 0 <= from: the entries of 0-based index from..to-1
Slice(arr, from, to) == SubSeq(arr, from + 1, Min(to, Len(arr)))
\* arr.slice(-k)
SliceLast(arr, k) == SubSeq(arr, Max(1, Len(arr) - k + 1), Len(arr))
\* arr.slice(0, -1)
SliceButLast(arr) == SubSeq(arr, 1, Len(arr) - 1)

\* arr.reduce((a, b) => a + b, 0)
RECURSIVE Sum(_)
Sum(arr) == IF arr = <<>> THEN 0 ELSE arr[1] + Sum(Tail(arr))

PredValues(predictions) == [i \in 1..Len(predictions) |-> predictions[i].value]

\* the loop with the window taken one day late, the day predicted inside it
RECURSIVE MAFitted_Lookahead(_, _, _, _)
MAFitted_Lookahead(data, values, window, i) ==
    IF i >= Len(values) THEN <<>>
    ELSE <<[date  |-> data[i + 1].date,
            value |-> MathRound(R(Sum(Slice(values, i - window + 1, i + 1)), window))]>>
         \o MAFitted_Lookahead(data, values, window, i + 1)

\* the loop of movingAverage from 0-based index i on
RECURSIVE MAFitted(_, _, _, _)
MAFitted(data, values, window, i) ==
    IF i >= Len(values) THEN <<>>
    ELSE <<[date  |-> data[i + 1].date,
            value |-> MathRound(R(Sum(Slice(values, i - window, i)), window))]>>
         \o MAFitted(data, values, window, i + 1)

\* movingAverage scoring its fitted values against the history from its start
movingAverage_FullActual(data, window) ==
    LET values == Values(data)
        nextPrediction == R(Sum(SliceLast(values, window)), window)
        predictions == MAFitted(data, values, window, window)
                       \o <<[date |-> Tomorrow, value |-> MathRound(nextPrediction)]>>
        actual == values
        predicted == PredValues(SliceButLast(predictions))
        metrics == calculateMetrics(actual, predicted)
    IN  [model       |-> "Moving Average",
         predictions |-> predictions,
         metrics     |-> metrics,
         confidence  |-> ConfidenceOf(metrics)]

movingAverage(data, window) ==
    LET values == Values(data)
        nextPrediction == R(Sum(SliceLast(values, window)), window)
        predictions == MAFitted(data, values, window, window)
                       \o <<[date |-> Tomorrow, value |-> MathRound(nextPrediction)]>>
        actual == Slice(values, window, Len(values))
        predicted == PredValues(SliceButLast(predictions))
        metrics == calculateMetrics(actual, predicted)
    IN  [model       |-> "Moving Average",
         predictions |-> predictions,
         metrics     |-> metrics,
         confidence  |-> ConfidenceOf(metrics)]

\* the smoothing factor, alpha = 0.3
Alpha == R(3, 10)

\* the loop with the rounded value carried into the next iteration
RECURSIVE ESFitted_RoundedCarry(_, _, _, _, _)
ESFitted_RoundedCarry(data, values, alpha, i, fc) ==
    IF i >= Len(values) THEN <<[date |-> Tomorrow, value |-> MathRound(fc)]>>
    ELSE LET next == RAdd(RMul(alpha, Num(values[i + 1])),
                          RMul(RSub(Num(1), alpha), fc))
         IN  <<[date |-> data[i + 1].date, value |-> MathRound(next)]>>
             \o ESFitted_RoundedCarry(data, values, alpha, i + 1, Num(MathRound(next)))

\* the loop of exponentialSmoothing from 0-based index i on; fc is `forecast`
\* as the previous iteration left it.  The last entry is the forward one.
RECURSIVE ESFitted(_, _, _, _, _)
ESFitted(data, values, alpha, i, fc) ==
    IF i >= Len(values) THEN <<[date |-> Tomorrow, value |-> MathRound(fc)]>>
    ELSE LET next == RAdd(RMul(alpha, Num(values[i + 1])),
                          RMul(RSub(Num(1), alpha), fc))
         IN  <<[date |-> data[i + 1].date, value |-> MathRound(next)]>>
             \o ESFitted(data, values, alpha, i + 1, next)

exponentialSmoothing(data, alpha) ==
    LET values == Values(data)
        predictions == <<[date |-> data[1].date, value |-> MathRound(Num(values[1]))]>>
                       \o ESFitted(data, values, alpha, 1, Num(values[1]))
        actual == values
        predicted == PredValues(SliceButLast(predictions))
        metrics == calculateMetrics(actual, predicted)
    IN  [model       |-> "Exponential Smoothing",
         predictions |-> predictions,
         metrics     |-> metrics,
         confidence  |-> ConfidenceOf(metrics)]

RECURSIVE SumX(_)
SumX(n) == IF n = 0 THEN 0 ELSE (n - 1) + SumX(n - 1)
RECURSIVE SumXX(_)
SumXX(n) == IF n = 0 THEN 0 ELSE (n - 1) * (n - 1) + SumXX(n - 1)
RECURSIVE SumXY(_, _)
SumXY(values, n) == IF n = 0 THEN 0 ELSE (n - 1) * values[n] + SumXY(values, n - 1)

\* the value of the line without the Math.max(0, ...)
LRValue_Unclamped(slope, intercept, i) ==
    MathRound(RAdd(RMul(slope, Num(i)), intercept))

\* Math.max(0, Math.round(slope * i + intercept))
LRValue(slope, intercept, i) ==
    Max(0, MathRound(RAdd(RMul(slope, Num(i)), intercept)))

\* linearRegression, for the histories of two points or more (with fewer the
\* slope is 0 / 0)
linearRegression(data) ==
    LET n == Len(data)
        values == Values(data)
        sumX == SumX(n)
        sumY == Sum(values)
        sumXY == SumXY(values, n)
        sumXX == SumXX(n)
        slope == R(n * sumXY - sumX * sumY, n * sumXX - sumX * sumX)
        intercept == RDiv(RSub(Num(sumY), RMul(slope, Num(sumX))), Num(n))
        predictions == [i \in 1..(n + 1) |->
                          IF i <= n
                          THEN [date |-> data[i].date, value |-> LRValue(slope, intercept, i - 1)]
                          ELSE [date |-> Tomorrow, value |-> LRValue(slope, intercept, n)]]
        actual == values
        predicted == PredValues(SliceButLast(predictions))
        metrics == calculateMetrics(actual, predicted)
    IN  [model       |-> "Linear Regression",
         predictions |-> predictions,
         metrics     |-> metrics,
         confidence  |-> ConfidenceOf(metrics)]

\* the default window of movingAverage
DefaultWindow == 7

\* (a, b) => a.metrics.mape - b.metrics.mape as Array.prototype.sort reads it:
\* a NaN result counts as 0
SortCompare(a, b) ==
    LET v == RSub(a.metrics.mape, b.metrics.mape)
    IN  IF IsNaN(v) THEN 0 ELSE Sign(v.num)

\* x inserted into the sorted sequence s behind everything it is not less than
RECURSIVE InsertSorted(_, _)
InsertSorted(s, x) ==
    IF s = <<>> THEN <<x>>
    ELSE IF SortCompare(x, s[Len(s)]) < 0
         THEN InsertSorted(SubSeq(s, 1, Len(s) - 1), x) \o <<s[Len(s)]>>
         ELSE s \o <<x>>

\* Array.prototype.sort: stable, by insertion
RECURSIVE SortModels(_)
SortModels(models) ==
    IF models = <<>> THEN <<>>
    ELSE InsertSorted(SortModels(SubSeq(models, 1, Len(models) - 1)), models[Len(models)])

ModelsOf(data) ==
    <<movingAverage(data, DefaultWindow),
      exponentialSmoothing(data, Alpha),
      linearRegression(data)>>

selectBestModel(data) == SortModels(ModelsOf(data))[1]

----------------------------------------------------------------------------
(* utils/forecasting: recommendation, insights, business impact *)

\* the bands with >= for >
SafetyStockPercent_Closed(confidence) ==
    IF RGe(confidence, Num(80)) THEN R(1, 10)
    ELSE IF RGe(confidence, Num(60)) THEN R(15, 100)
    ELSE R(2, 10)

\* the bands with the buffers of the outer two exchanged
SafetyStockPercent_Swapped(confidence) ==
    IF RGt(confidence, Num(80)) THEN R(2, 10)
    ELSE IF RGt(confidence, Num(60)) THEN R(15, 100)
    ELSE R(1, 10)

\* forecast.confidence > 80 ? 0.1 : forecast.confidence > 60 ? 0.15 : 0.2
SafetyStockPercent(confidence) ==
    IF RGt(confidence, Num(80)) THEN R(1, 10)
    ELSE IF RGt(confidence, Num(60)) THEN R(15, 100)
    ELSE R(2, 10)

OverstockReasoning == "Overstock detected. Consider reducing orders or promotional discounts."
CriticalReasoning == "Critical stock level. Immediate restocking recommended to avoid stockouts."
OptimalReasoning == "Stock levels are optimal. Monitor for seasonal changes."

\* the classification with > for >= in the overstock test
RiskOf_Strict(currentStock, forecastedDemand, recommendedStock) ==
    IF RGt(Num(currentStock), RMul(Num(recommendedStock), R(15, 10)))
    THEN [riskLevel |-> "Medium", reasoning |-> OverstockReasoning]
    ELSE IF RLt(Num(currentStock), RMul(Num(forecastedDemand), R(8, 10)))
    THEN [riskLevel |-> "High", reasoning |-> CriticalReasoning]
    ELSE [riskLevel |-> "Low", reasoning |-> OptimalReasoning]

\* the if / else if / else of calculateInventoryRecommendation
RiskOf(currentStock, forecastedDemand, recommendedStock) ==
    IF RGe(Num(currentStock), RMul(Num(recommendedStock), R(15, 10)))
    THEN [riskLevel |-> "Medium", reasoning |-> OverstockReasoning]
    ELSE IF RLt(Num(currentStock), RMul(Num(forecastedDemand), R(8, 10)))
    THEN [riskLevel |-> "High", reasoning |-> CriticalReasoning]
    ELSE [riskLevel |-> "Low", reasoning |-> OptimalReasoning]

\* Math.round(forecastedDemand * safetyStockPercent)
SafetyStockOf(forecastedDemand, confidence) ==
    MathRound(RMul(Num(forecastedDemand), SafetyStockPercent(confidence)))

\* the recommendation with the safety stock subtracted
calculateInventoryRecommendation_Minus(fc, currentStock) ==
    LET forecastedDemand == fc.predictions[Len(fc.predictions)].value
        safetyStock == SafetyStockOf(forecastedDemand, fc.confidence)
        recommendedStock == forecastedDemand - safetyStock
        risk == RiskOf(currentStock, forecastedDemand, recommendedStock)
    IN  [forecastedDemand |-> forecastedDemand,
         recommendedStock |-> recommendedStock,
         safetyStock      |-> safetyStock,
         riskLevel        |-> risk.riskLevel,
         reasoning        |-> risk.reasoning]

\* the recommendation with the demand left out of the recommended stock
calculateInventoryRecommendation_BufferOnly(fc, currentStock) ==
    LET forecastedDemand == fc.predictions[Len(fc.predictions)].value
        safetyStock == SafetyStockOf(forecastedDemand, fc.confidence)
        recommendedStock == safetyStock
        risk == RiskOf(currentStock, forecastedDemand, recommendedStock)
    IN  [forecastedDemand |-> forecastedDemand,
         recommendedStock |-> recommendedStock,
         safetyStock      |-> safetyStock,
         riskLevel        |-> risk.riskLevel,
         reasoning        |-> risk.reasoning]

calculateInventoryRecommendation(fc, currentStock) ==
    LET forecastedDemand == fc.predictions[Len(fc.predictions)].value
        safetyStock == SafetyStockOf(forecastedDemand, fc.confidence)
        recommendedStock == forecastedDemand + safetyStock
        risk == RiskOf(currentStock, forecastedDemand, recommendedStock)
    IN  [forecastedDemand |-> forecastedDemand,
         recommendedStock |-> recommendedStock,
         safetyStock      |-> safetyStock,
         riskLevel        |-> risk.riskLevel,
         reasoning        |-> risk.reasoning]

\* Math.round of a number that may be NaN or infinite, as a number
RRound(x) == IF x.den = 0 THEN x ELSE Num(MathRound(x))

\* Math.max(...values), Math.min(...values) of a non-empty array
RECURSIVE MaxOf(_)
MaxOf(arr) == IF Len(arr) = 1 THEN arr[1] ELSE Max(arr[1], MaxOf(Tail(arr)))
RECURSIVE MinOf(_)
MinOf(arr) == IF Len(arr) = 1 THEN arr[1] ELSE Min(arr[1], MinOf(Tail(arr)))

\* data.filter((d) => d.is_festival) and its complement
RECURSIVE Festival(_, _)
Festival(data, flag) ==
    IF data = <<>> THEN <<>>
    ELSE (IF data[1].is_festival = flag THEN <<data[1]>> ELSE <<>>) \o Festival(Tail(data), flag)

TrendInsight(recentAvg, overallAvg) ==
    LET trend == IF RGt(recentAvg, overallAvg) THEN "increasing" ELSE "decreasing"
    IN  [type        |-> "trend",
         title       |-> IF trend = "increasing" THEN "Demand is increasing" ELSE "Demand is decreasing",
         description |-> <<RRound(recentAvg),
                           RAbs(RRound(RMul(RDiv(RSub(recentAvg, overallAvg), overallAvg), Num(100))))>>,
         actionable  |-> IF trend = "increasing"
                         THEN "Increase inventory levels to meet growing demand"
                         ELSE "Consider promotional activities to boost sales",
         impact      |-> IF trend = "increasing" THEN "positive" ELSE "negative"]

FestivalInsight(festivalAvg, nonFestivalAvg) ==
    [type        |-> "festival",
     title       |-> "Festival Impact Detected",
     description |-> <<RRound(RMul(RDiv(RSub(festivalAvg, nonFestivalAvg), nonFestivalAvg), Num(100))),
                       RRound(festivalAvg), RRound(nonFestivalAvg)>>,
     actionable  |-> "Stock up 2-3 days before festivals. Plan promotional bundles.",
     impact      |-> "positive"]

AnomalyInsight(min, max) ==
    [type        |-> "anomaly",
     title       |-> "Sales Volatility Detected",
     description |-> <<Num(min), Num(max)>>,
     actionable  |-> "Maintain higher safety stock to buffer against unpredictable demand.",
     impact      |-> "neutral"]

SeasonalInsight(confidence) ==
    [type        |-> "seasonal",
     title       |-> "Limited Forecast Confidence",
     description |-> <<RRound(confidence)>>,
     actionable  |-> "Continue collecting sales data. Review forecast weekly.",
     impact      |-> "neutral"]

\* generateInsights with the anomaly test made an else-branch of the festival test
generateInsights_ElseIf(data, fc) ==
    LET values == Values(data)
        recentAvg == R(Sum(SliceLast(values, 7)), 7)
        overallAvg == R(Sum(values), Len(values))
        festivalDays == Festival(data, TRUE)
        festivalAvg == R(Sum(Values(festivalDays)), Len(festivalDays))
        nonFestivalAvg == R(Sum(Values(Festival(data, FALSE))), Len(data) - Len(festivalDays))
        max == MaxOf(values)
        min == MinOf(values)
    IN  (IF RGt(RDiv(RAbs(RSub(recentAvg, overallAvg)), overallAvg), R(15, 100))
         THEN <<TrendInsight(recentAvg, overallAvg)>> ELSE <<>>)
        \o
        (IF Len(festivalDays) > 0 /\ RGt(festivalAvg, RMul(nonFestivalAvg, R(13, 10)))
         THEN <<FestivalInsight(festivalAvg, nonFestivalAvg)>> ELSE <<>>)
        \o
        (IF ~(Len(festivalDays) > 0 /\ RGt(festivalAvg, RMul(nonFestivalAvg, R(13, 10))))
            /\ (RGt(Num(max), RMul(overallAvg, Num(2))) \/ RLt(Num(min), RMul(overallAvg, R(3, 10))))
         THEN <<AnomalyInsight(min, max)>> ELSE <<>>)
        \o
        (IF RLt(fc.confidence, Num(70))
         THEN <<SeasonalInsight(fc.confidence)>> ELSE <<>>)

\* generateInsights, for a non-empty history
generateInsights(data, fc) ==
    LET values == Values(data)
        recentAvg == R(Sum(SliceLast(values, 7)), 7)
        overallAvg == R(Sum(values), Len(values))
        festivalDays == Festival(data, TRUE)
        festivalAvg == R(Sum(Values(festivalDays)), Len(festivalDays))
        nonFestivalAvg == R(Sum(Values(Festival(data, FALSE))), Len(data) - Len(festivalDays))
        max == MaxOf(values)
        min == MinOf(values)
    IN  (IF RGt(RDiv(RAbs(RSub(recentAvg, overallAvg)), overallAvg), R(15, 100))
         THEN <<TrendInsight(recentAvg, overallAvg)>> ELSE <<>>)
        \o
        (IF Len(festivalDays) > 0 /\ RGt(festivalAvg, RMul(nonFestivalAvg, R(13, 10)))
         THEN <<FestivalInsight(festivalAvg, nonFestivalAvg)>> ELSE <<>>)
        \o
        (IF RGt(Num(max), RMul(overallAvg, Num(2))) \/ RLt(Num(min), RMul(overallAvg, R(3, 10)))
         THEN <<AnomalyInsight(min, max)>> ELSE <<>>)
        \o
        (IF RLt(fc.confidence, Num(70))
         THEN <<SeasonalInsight(fc.confidence)>> ELSE <<>>)

\* calculateBusinessImpact with >= for > in the stockout test
calculateBusinessImpact_AlwaysRisk(currentStock, recommendedStock, forecastedDemand, unitPrice) ==
    LET overstockAmount == RMax(Num(0), RSub(currentStock, RMul(recommendedStock, R(12, 10))))
        understockRisk == RMax(Num(0), RSub(recommendedStock, currentStock))
        \* currentStock || 1
        divisor == IF currentStock.num = 0 THEN Num(1) ELSE currentStock
        holdingCostPercent == R(15, 100)
        potentialLostSales == IF RGt(understockRisk, Num(0))
                              THEN RMul(understockRisk, R(3, 10)) ELSE Num(0)
    IN  [overstockReduction |-> RRound(RMul(RDiv(overstockAmount, divisor), Num(100))),
         stockoutReduction  |-> IF RGe(understockRisk, Num(0)) THEN 75 ELSE 95,
         costSavings        |-> RRound(RMul(RMul(overstockAmount, unitPrice), holdingCostPercent)),
         revenueIncrease    |-> RRound(RMul(potentialLostSales, unitPrice))]

\* calculateBusinessImpact dividing by currentStock itself
calculateBusinessImpact_Unguarded(currentStock, recommendedStock, forecastedDemand, unitPrice) ==
    LET overstockAmount == RMax(Num(0), RSub(currentStock, RMul(recommendedStock, R(12, 10))))
        understockRisk == RMax(Num(0), RSub(recommendedStock, currentStock))
        divisor == currentStock
        holdingCostPercent == R(15, 100)
        potentialLostSales == IF RGt(understockRisk, Num(0))
                              THEN RMul(understockRisk, R(3, 10)) ELSE Num(0)
    IN  [overstockReduction |-> RRound(RMul(RDiv(overstockAmount, divisor), Num(100))),
         stockoutReduction  |-> IF RGt(understockRisk, Num(0)) THEN 75 ELSE 95,
         costSavings        |-> RRound(RMul(RMul(overstockAmount, unitPrice), holdingCostPercent)),
         revenueIncrease    |-> RRound(RMul(potentialLostSales, unitPrice))]

\* calculateBusinessImpact with the stockout risk measured against 1.5 times
\* the recommended stock
calculateBusinessImpact_WideRisk(currentStock, recommendedStock, forecastedDemand, unitPrice) ==
    LET overstockAmount == RMax(Num(0), RSub(currentStock, RMul(recommendedStock, R(12, 10))))
        understockRisk == RMax(Num(0), RSub(RMul(recommendedStock, R(15, 10)), currentStock))
        divisor == IF currentStock.num = 0 THEN Num(1) ELSE currentStock
        holdingCostPercent == R(15, 100)
        potentialLostSales == IF RGt(understockRisk, Num(0))
                              THEN RMul(understockRisk, R(3, 10)) ELSE Num(0)
    IN  [overstockReduction |-> RRound(RMul(RDiv(overstockAmount, divisor), Num(100))),
         stockoutReduction  |-> IF RGt(understockRisk, Num(0)) THEN 75 ELSE 95,
         costSavings        |-> RRound(RMul(RMul(overstockAmount, unitPrice), holdingCostPercent)),
         revenueIncrease    |-> RRound(RMul(potentialLostSales, unitPrice))]

\* calculateBusinessImpact; its arguments are numbers (the what-if simulation
\* passes fractions).  forecastedDemand is not read.
calculateBusinessImpact(currentStock, recommendedStock, forecastedDemand, unitPrice) ==
    LET overstockAmount == RMax(Num(0), RSub(currentStock, RMul(recommendedStock, R(12, 10))))
        understockRisk == RMax(Num(0), RSub(recommendedStock, currentStock))
        \* currentStock || 1
        divisor == IF currentStock.num = 0 THEN Num(1) ELSE currentStock
        holdingCostPercent == R(15, 100)
        potentialLostSales == IF RGt(understockRisk, Num(0))
                              THEN RMul(understockRisk, R(3, 10)) ELSE Num(0)
    IN  [overstockReduction |-> RRound(RMul(RDiv(overstockAmount, divisor), Num(100))),
         stockoutReduction  |-> IF RGt(understockRisk, Num(0)) THEN 75 ELSE 95,
         costSavings        |-> RRound(RMul(RMul(overstockAmount, unitPrice), holdingCostPercent)),
         revenueIncrease    |-> RRound(RMul(potentialLostSales, unitPrice))]

\* the history with the given quantities, dated 1, 2, ...
History(qs) == [i \in 1..Len(qs) |-> [date |-> i, quantity_sold |-> qs[i], is_festival |-> FALSE]]

----------------------------------------------------------------------------
(* components/ForecastDashboard *)

Null == [null |-> TRUE]

\* Generate Forecast is clicked until MaxForecasts inserts have been sent, so
\* the forecasts table holds at most MaxForecasts rows
MaxForecasts == 1

\* rows of the products table of the shop, ordered by name
ProductTable ==
    <<[id |-> "A", current_stock |-> 10, unit_price |-> Num(20)],
      [id |-> "B", current_stock |-> 40, unit_price |-> R(25, 2)]>>

ProductIds == {ProductTable[i].id : i \in 1..Len(ProductTable)}

\* rows of the sales_data table of each product, ordered by date
SalesTable ==
    [id \in ProductIds |->
        IF id = "A"
        THEN [History(<<10, 12, 11, 13, 14, 12, 15, 16>>) EXCEPT ![4].is_festival = TRUE]
        ELSE History(<<5, 6, 7>>)]

\* positions the two what-if sliders are moved to
WhatIfStocks == {0, 10, 30}
WhatIfDiscounts == {0, 20}

\* the simulation with > for >= in its overstock test
WhatIf_Strict(rec, product, stock, discount) ==
    LET adjustedDemand ==
            RMul(Num(rec.forecastedDemand),
                 RAdd(Num(1), RMul(R(discount, 100), R(5, 10))))
        adjustedRecommendedStock == MathRound(RAdd(adjustedDemand, Num(rec.safetyStock)))
        newRiskLevel ==
            IF RGt(Num(stock), RMul(Num(adjustedRecommendedStock), R(15, 10))) THEN "Medium"
            ELSE IF RLt(Num(stock), RMul(adjustedDemand, R(8, 10))) THEN "High"
            ELSE "Low"
        impact == calculateBusinessImpact(
                      Num(stock), Num(adjustedRecommendedStock), adjustedDemand,
                      RMul(product.unit_price, RSub(Num(1), R(discount, 100))))
    IN  [adjustedDemand |-> MathRound(adjustedDemand),
         adjustedRecommendedStock |-> adjustedRecommendedStock,
         riskLevel |-> newRiskLevel,
         impact |-> impact]

\* the simulation with the safety stock raised by the discount as the demand is
WhatIf_RecomputedSafety(rec, product, stock, discount) ==
    LET adjustedDemand ==
            RMul(Num(rec.forecastedDemand),
                 RAdd(Num(1), RMul(R(discount, 100), R(5, 10))))
        adjustedRecommendedStock ==
            MathRound(RAdd(adjustedDemand,
                           RMul(Num(rec.safetyStock),
                                RAdd(Num(1), RMul(R(discount, 100), R(5, 10))))))
        newRiskLevel ==
            IF RGe(Num(stock), RMul(Num(adjustedRecommendedStock), R(15, 10))) THEN "Medium"
            ELSE IF RLt(Num(stock), RMul(adjustedDemand, R(8, 10))) THEN "High"
            ELSE "Low"
        impact == calculateBusinessImpact(
                      Num(stock), Num(adjustedRecommendedStock), adjustedDemand,
                      RMul(product.unit_price, RSub(Num(1), R(discount, 100))))
    IN  [adjustedDemand |-> MathRound(adjustedDemand),
         adjustedRecommendedStock |-> adjustedRecommendedStock,
         riskLevel |-> newRiskLevel,
         impact |-> impact]

\* the simulation with a discount lowering the demand
WhatIf_Markdown(rec, product, stock, discount) ==
    LET adjustedDemand ==
            RMul(Num(rec.forecastedDemand),
                 RSub(Num(1), RMul(R(discount, 100), R(5, 10))))
        adjustedRecommendedStock == MathRound(RAdd(adjustedDemand, Num(rec.safetyStock)))
        newRiskLevel ==
            IF RGe(Num(stock), RMul(Num(adjustedRecommendedStock), R(15, 10))) THEN "Medium"
            ELSE IF RLt(Num(stock), RMul(adjustedDemand, R(8, 10))) THEN "High"
            ELSE "Low"
        impact == calculateBusinessImpact(
                      Num(stock), Num(adjustedRecommendedStock), adjustedDemand,
                      RMul(product.unit_price, RSub(Num(1), R(discount, 100))))
    IN  [adjustedDemand |-> MathRound(adjustedDemand),
         adjustedRecommendedStock |-> adjustedRecommendedStock,
         riskLevel |-> newRiskLevel,
         impact |-> impact]

\* the object runWhatIfSimulation hands to setWhatIfResults
WhatIf(rec, product, stock, discount) ==
    LET adjustedDemand ==
            RMul(Num(rec.forecastedDemand),
                 RAdd(Num(1), RMul(R(discount, 100), R(5, 10))))
        adjustedRecommendedStock == MathRound(RAdd(adjustedDemand, Num(rec.safetyStock)))
        newRiskLevel ==
            IF RGe(Num(stock), RMul(Num(adjustedRecommendedStock), R(15, 10))) THEN "Medium"
            ELSE IF RLt(Num(stock), RMul(adjustedDemand, R(8, 10))) THEN "High"
            ELSE "Low"
        impact == calculateBusinessImpact(
                      Num(stock), Num(adjustedRecommendedStock), adjustedDemand,
                      RMul(product.unit_price, RSub(Num(1), R(discount, 100))))
    IN  [adjustedDemand |-> MathRound(adjustedDemand),
         adjustedRecommendedStock |-> adjustedRecommendedStock,
         riskLevel |-> newRiskLevel,
         impact |-> impact]

\* whatIfResults after runWhatIfSimulation ran in a render with these values
runWhatIfSimulation(rec, product, stock, discount) ==
    IF rec = Null \/ product = Null THEN whatIfResults
    ELSE WhatIf(rec, product, stock, discount)

\* the effect running the simulation of the render before the change, with the
\* previous positions of the sliders
WhatIfEffect_Stale(product, stock, discount) ==
    IF <<stock, discount>> # <<whatIfStock, whatIfDiscount>> /\ recommendation # Null
    THEN runWhatIfSimulation(recommendation, product, whatIfStock, whatIfDiscount)
    ELSE whatIfResults

\* whatIfResults after the effect on [whatIfStock, whatIfDiscount] of the render
\* that follows a change of the two to stock and discount (no change, no effect)
WhatIfEffect(product, stock, discount) ==
    IF <<stock, discount>> # <<whatIfStock, whatIfDiscount>> /\ recommendation # Null
    THEN runWhatIfSimulation(recommendation, product, stock, discount)
    ELSE whatIfResults

\* the effect on [selectedProduct], for a product: loadSalesData is sent off
\* and the stock slider is set to the product's stock
SelectedProductEffect(product) ==
    /\ pending' = pending \cup {[op |-> "loadSalesData", productId |-> product.id]}
    /\ whatIfStock' = product.current_stock
    /\ whatIfResults' = WhatIfEffect(product, product.current_stock, whatIfDiscount)

\* selectBestModel of the histories the sales_data table holds, computed once
BestModel == [data \in {SalesTable[id] : id \in ProductIds} |-> selectBestModel(data)]

\* the dashboard is on screen: not the spinner, not "No Products Found"
Rendered == ~loading /\ products # <<>>

\* the button left enabled while a forecast is generated
ButtonDisabled_DataOnly == Len(salesData) < 7

\* the Generate Forecast button is disabled
ButtonDisabled == generating \/ Len(salesData) < 7

InitDash ==
    /\ products = <<>>
    /\ selectedProduct = Null
    /\ salesData = <<>>
    /\ forecast = Null
    /\ recommendation = Null
    /\ insights = <<>>
    /\ businessImpact = Null
    /\ loading = FALSE
    /\ generating = FALSE
    /\ whatIfStock = 0
    /\ whatIfDiscount = 0
    /\ whatIfResults = Null
    /\ forecasts = <<>>
    /\ pending = {}
    /\ last = [op |-> "init"]
    /\ audit = [accepted |-> 0, inserts |-> <<>>]

\* the effect on [shopId] of the first render: loadProducts up to its await
Mount ==
    /\ last.op = "init"
    /\ loading' = TRUE
    /\ pending' = pending \cup {[op |-> "loadProducts"]}
    /\ last' = [op |-> "mount"]
    /\ UNCHANGED <<products, selectedProduct, salesData, forecast, recommendation,
                   insights, businessImpact, generating, whatIfStock, whatIfDiscount,
                   whatIfResults, forecasts, audit, call>>

\* loadProducts from its await on, with the rows the query returned (Null: an
\* error), and the effects of the render that follows
loadProducts ==
    \E req \in pending : \E data \in {Null, <<>>, ProductTable} :
        /\ req.op = "loadProducts"
        /\ loading' = FALSE
        /\ last' = [op |-> "loadProducts", rows |-> IF data = Null THEN 0 ELSE Len(data)]
        /\ IF data # Null /\ Len(data) > 0
           THEN /\ products' = data
                /\ selectedProduct' = data[1]
                /\ LET sent == pending \ {req}
                   IN  /\ pending' = sent \cup {[op |-> "loadSalesData", productId |-> data[1].id]}
                       /\ whatIfStock' = data[1].current_stock
                       /\ whatIfResults' = WhatIfEffect(data[1], data[1].current_stock, whatIfDiscount)
           ELSE /\ pending' = pending \ {req}
                /\ UNCHANGED <<products, selectedProduct, whatIfStock, whatIfResults>>
        /\ UNCHANGED <<salesData, forecast, recommendation, insights, businessImpact,
                       generating, whatIfDiscount, forecasts, audit, call>>

\* onChange of the product select, and the effects of the render that follows
SelectProduct ==
    \E i \in 1..Len(products) :
        /\ Rendered
        /\ products[i] # selectedProduct
        /\ selectedProduct' = products[i]
        /\ SelectedProductEffect(products[i])
        /\ last' = [op |-> "selectProduct", productId |-> products[i].id]
        /\ UNCHANGED <<products, salesData, forecast, recommendation, insights,
                       businessImpact, loading, generating, whatIfDiscount, forecasts, audit,
                       call>>

\* loadSalesData from its await on, with the rows the query returned or an error
loadSalesData ==
    \E req \in pending : \E ok \in BOOLEAN :
        /\ req.op = "loadSalesData"
        /\ pending' = pending \ {req}
        /\ last' = [op |-> "loadSalesData", productId |-> req.productId, ok |-> ok]
        /\ IF ok
           THEN /\ salesData' = SalesTable[req.productId]
                /\ forecast' = Null
                /\ recommendation' = Null
                /\ insights' = <<>>
                /\ businessImpact' = Null
           ELSE UNCHANGED <<salesData, forecast, recommendation, insights, businessImpact>>
        /\ UNCHANGED <<products, selectedProduct, loading, generating, whatIfStock,
                       whatIfDiscount, whatIfResults, forecasts, audit, call>>

\* a click on Generate Forecast: nothing when the button is disabled, else
\* generateForecast up to its first await
ClickGenerate ==
    /\ Rendered
    /\ Len(audit.inserts) < MaxForecasts
    /\ IF ButtonDisabled
       THEN /\ last' = [op |-> "generateForecast", accepted |-> FALSE, alert |-> FALSE]
            /\ UNCHANGED <<generating, pending, audit>>
       ELSE IF selectedProduct = Null \/ Len(salesData) < 7
       THEN /\ last' = [op |-> "generateForecast", accepted |-> FALSE, alert |-> TRUE]
            /\ UNCHANGED <<generating, pending, audit>>
       ELSE /\ generating' = TRUE
            /\ pending' = pending \cup {[op |-> "generateForecast",
                                         selectedProduct |-> selectedProduct,
                                         salesData |-> salesData]}
            /\ last' = [op |-> "generateForecast", accepted |-> TRUE, alert |-> FALSE]
            /\ audit' = [audit EXCEPT !.accepted = @ + 1]
    /\ UNCHANGED <<products, selectedProduct, salesData, forecast, recommendation,
                   insights, businessImpact, loading, whatIfStock, whatIfDiscount,
                   whatIfResults, forecasts, call>>

\* the row with the recommended stock and the safety stock exchanged
ForecastRow_Exchanged(product, bestForecast, inventoryRec) ==
    [product_id       |-> product.id,
     forecast_date    |-> bestForecast.predictions[Len(bestForecast.predictions)].date,
     predicted_demand |-> inventoryRec.forecastedDemand,
     recommended_stock |-> inventoryRec.safetyStock,
     safety_stock     |-> inventoryRec.recommendedStock,
     risk_level       |-> inventoryRec.riskLevel,
     model_used       |-> bestForecast.model,
     confidence_score |-> bestForecast.confidence]

\* the row generateForecast inserts
ForecastRow(product, bestForecast, inventoryRec) ==
    [product_id       |-> product.id,
     forecast_date    |-> bestForecast.predictions[Len(bestForecast.predictions)].date,
     predicted_demand |-> inventoryRec.forecastedDemand,
     recommended_stock |-> inventoryRec.recommendedStock,
     safety_stock     |-> inventoryRec.safetyStock,
     risk_level       |-> inventoryRec.riskLevel,
     model_used       |-> bestForecast.model,
     confidence_score |-> bestForecast.confidence]

\* generateForecast from the end of its delay up to the await of the insert,
\* with the selectedProduct and salesData of the render the click was made in
generateForecast ==
    \E req \in pending :
        /\ req.op = "generateForecast"
        /\ LET bestForecast == BestModel[req.salesData]
               inventoryRec == calculateInventoryRecommendation(
                                   bestForecast, req.selectedProduct.current_stock)
               aiInsights == generateInsights(req.salesData, bestForecast)
               impact == calculateBusinessImpact(
                             Num(req.selectedProduct.current_stock),
                             Num(inventoryRec.recommendedStock),
                             Num(inventoryRec.forecastedDemand),
                             req.selectedProduct.unit_price)
           IN  /\ forecast' = bestForecast
               /\ recommendation' = inventoryRec
               /\ insights' = aiInsights
               /\ businessImpact' = impact
               /\ pending' = (pending \ {req}) \cup
                      {[op |-> "insert",
                        row |-> ForecastRow(req.selectedProduct, bestForecast, inventoryRec)]}
               /\ audit' = [audit EXCEPT !.inserts = Append(@,
                                ForecastRow(req.selectedProduct, bestForecast, inventoryRec))]
        /\ last' = [op |-> "generateForecastResume"]
        /\ UNCHANGED <<products, selectedProduct, salesData, loading, generating,
                       whatIfStock, whatIfDiscount, whatIfResults, forecasts, call>>

\* the insert into forecasts answers (the row stored, or an error), and
\* generateForecast ends
InsertDone ==
    \E req \in pending : \E ok \in BOOLEAN :
        /\ req.op = "insert"
        /\ pending' = pending \ {req}
        /\ forecasts' = IF ok THEN Append(forecasts, req.row) ELSE forecasts
        /\ generating' = FALSE
        /\ last' = [op |-> "insert", ok |-> ok]
        /\ UNCHANGED <<products, selectedProduct, salesData, forecast, recommendation,
                       insights, businessImpact, loading, whatIfStock, whatIfDiscount,
                       whatIfResults, audit, call>>

\* the what-if panel is on screen
WhatIfShown == Rendered /\ forecast # Null /\ recommendation # Null

\* the stock slider with the simulated stock written into the recommendation
SetWhatIfStock_Commit ==
    \E stock \in WhatIfStocks :
        /\ WhatIfShown
        /\ stock <= recommendation.recommendedStock * 2
        /\ stock # whatIfStock
        /\ whatIfStock' = stock
        /\ whatIfResults' = WhatIfEffect(selectedProduct, stock, whatIfDiscount)
        /\ recommendation' = [recommendation EXCEPT
                                 !.recommendedStock = whatIfResults'.adjustedRecommendedStock + 1]
        /\ last' = [op |-> "setWhatIfStock"]
        /\ UNCHANGED <<products, selectedProduct, salesData, forecast,
                       insights, businessImpact, loading, generating, whatIfDiscount,
                       forecasts, pending, audit, call>>

\* onChange of the stock slider, and the effect of the render that follows
SetWhatIfStock ==
    \E stock \in WhatIfStocks :
        /\ WhatIfShown
        /\ stock <= recommendation.recommendedStock * 2
        /\ stock # whatIfStock
        /\ whatIfStock' = stock
        /\ whatIfResults' = WhatIfEffect(selectedProduct, stock, whatIfDiscount)
        /\ last' = [op |-> "setWhatIfStock"]
        /\ UNCHANGED <<products, selectedProduct, salesData, forecast, recommendation,
                       insights, businessImpact, loading, generating, whatIfDiscount,
                       forecasts, pending, audit, call>>

\* onChange of the discount slider, and the effect of the render that follows
SetWhatIfDiscount ==
    \E discount \in WhatIfDiscounts :
        /\ WhatIfShown
        /\ discount # whatIfDiscount
        /\ whatIfDiscount' = discount
        /\ whatIfResults' = WhatIfEffect(selectedProduct, whatIfStock, discount)
        /\ last' = [op |-> "setWhatIfDiscount"]
        /\ UNCHANGED <<products, selectedProduct, salesData, forecast, recommendation,
                       insights, businessImpact, loading, generating, whatIfStock,
                       forecasts, pending, audit, call>>

----------------------------------------------------------------------------
(* The utilities applied to every input within the bounds: the input is    *)
(* drawn by the initial state and one step applies the utility to it.      *)

SeqsOf(S, lo, hi) == UNION {[1..n -> S] : n \in lo..hi}

NoCall == [op |-> "none"]

\* histories the Generate Forecast gate lets through: every one of
\* DefaultWindow..MaxLen quantities in 0..MaxQty, and three of larger quantities
GateHistories ==
    {History(qs) : qs \in SeqsOf(0..MaxQty, DefaultWindow, MaxLen)}
    \cup {History(<<4, 4, 5, 5, 6, 6, 7>>),
          History(<<10, 12, 11, 13, 14, 12, 15, 16>>),
          History(<<9, 7, 8, 5, 4, 2, 1, 0>>)}

InitModels ==
    /\ InitDash
    /\ \E data \in GateHistories : call = [op |-> "selectBestModel", data |-> data, done |-> FALSE]

ApplySelect ==
    /\ call.op = "selectBestModel" /\ ~call.done
    /\ call' = [op |-> "selectBestModel", data |-> call.data, done |-> TRUE,
                models |-> ModelsOf(call.data),
                out |-> selectBestModel(call.data)]
    /\ UNCHANGED dashVars

NextModels == ApplySelect

SpecModels == InitModels /\ [][NextModels]_vars

\* sequences handed to calculateMetrics: up to MaxSeq values in 0..MaxVal each
MaxVal == 2

InitMetrics ==
    /\ InitDash
    /\ \E actual \in SeqsOf(0..MaxVal, 0, MaxSeq) : \E predicted \in SeqsOf(0..MaxVal, 0, MaxSeq) :
           call = [op |-> "calculateMetrics", actual |-> actual, predicted |-> predicted,
                   done |-> FALSE]

ApplyMetrics ==
    /\ call.op = "calculateMetrics" /\ ~call.done
    /\ call' = [op |-> "calculateMetrics", actual |-> call.actual,
                predicted |-> call.predicted, done |-> TRUE,
                out |-> calculateMetrics(call.actual, call.predicted)]
    /\ UNCHANGED dashVars

NextMetrics == ApplyMetrics

SpecMetrics == InitMetrics /\ [][NextMetrics]_vars

\* forward predictions handed to calculateInventoryRecommendation are in
\* 0..MaxDemand, current stock in 0..MaxStock
MaxDemand == 20
MaxStock == 40

\* confidences handed to it: around the two thresholds, the ends, a fraction, NaN
Confidences ==
    {Num(0), Num(59), Num(60), Num(61), R(141, 2), Num(79), Num(80), R(801, 10),
     Num(81), Num(100), NaN}

\* a ForecastResult with the given forward prediction and confidence
ForecastWith(value, confidence) ==
    [model       |-> "Moving Average",
     predictions |-> <<[date |-> Tomorrow, value |-> value]>>,
     metrics     |-> [mae |-> NaN, rmseSq |-> NaN, mape |-> RSub(Num(100), confidence)],
     confidence  |-> confidence]

InitRecommend ==
    /\ InitDash
    /\ \E value \in 0..MaxDemand : \E confidence \in Confidences : \E stock \in 0..MaxStock :
           call = [op |-> "calculateInventoryRecommendation",
                   forecast |-> ForecastWith(value, confidence),
                   currentStock |-> stock, done |-> FALSE]

ApplyRecommend ==
    /\ call.op = "calculateInventoryRecommendation" /\ ~call.done
    /\ call' = [op |-> "calculateInventoryRecommendation", forecast |-> call.forecast,
                currentStock |-> call.currentStock, done |-> TRUE,
                out |-> calculateInventoryRecommendation(call.forecast, call.currentStock)]
    /\ UNCHANGED dashVars

NextRecommend == ApplyRecommend

SpecRecommend == InitRecommend /\ [][NextRecommend]_vars

\* windows handed to movingAverage are 1..MaxWindow and the default one;
\* histories handed to it have up to MaxMALen quantities in 0..MaxMAQty
MaxWindow == 3
MaxMALen == 5
MaxMAQty == 2

Windows == (1..MaxWindow) \cup {DefaultWindow}

\* every history within the bounds, the empty one included, and a longer one
MAHistories ==
    {History(qs) : qs \in SeqsOf(0..MaxMAQty, 0, MaxMALen)}
    \cup {History(<<10, 12, 11, 13, 14, 12, 15, 16>>)}

InitMA ==
    /\ InitDash
    /\ \E data \in MAHistories : \E window \in Windows :
           call = [op |-> "movingAverage", data |-> data, window |-> window, done |-> FALSE]

ApplyMA ==
    /\ call.op = "movingAverage" /\ ~call.done
    /\ call' = [op |-> "movingAverage", data |-> call.data, window |-> call.window,
                done |-> TRUE, out |-> movingAverage(call.data, call.window)]
    /\ UNCHANGED dashVars

NextMA == ApplyMA

SpecMA == InitMA /\ [][NextMA]_vars

\* histories handed to generateInsights: every one of 1..MaxInsLen quantities
\* in 0..MaxInsQty with every marking of festival days, and longer ones
MaxInsLen == 3
MaxInsQty == 3

\* the history with the given quantities and festival flags
Flagged(qs, fs) ==
    [i \in 1..Len(qs) |-> [date |-> i, quantity_sold |-> qs[i], is_festival |-> fs[i]]]

\* festival markings of a history of n days: none, the first, the last, all
Markings(n) ==
    {[i \in 1..n |-> FALSE], [i \in 1..n |-> i = 1], [i \in 1..n |-> i = n],
     [i \in 1..n |-> TRUE]}

LongQuantities ==
    {<<20, 1, 1, 1, 1, 1, 1, 1>>, <<0, 0, 0, 5, 5, 5, 5, 5, 5, 5>>,
     <<10, 12, 11, 13, 14, 12, 15, 16>>, <<5, 5, 5, 5, 5, 5, 5>>,
     <<13, 10, 10, 10, 10, 10, 10>>, <<14, 10, 10, 10, 10, 10, 10>>,
     <<27, 27, 27, 17, 17, 17, 17, 17, 17, 17>>}

InsightHistories ==
    UNION {{Flagged(qs, fs) : fs \in [1..Len(qs) -> BOOLEAN]} :
              qs \in SeqsOf(0..MaxInsQty, 1, MaxInsLen)}
    \cup UNION {{Flagged(qs, fs) : fs \in Markings(Len(qs))} : qs \in LongQuantities}

\* confidences of the forecast handed to it: around the threshold, the ends, NaN
InsightConfidences == {Num(0), R(699, 10), Num(70), Num(100), NaN}

InitInsights ==
    /\ InitDash
    /\ \E data \in InsightHistories : \E confidence \in InsightConfidences :
           call = [op |-> "generateInsights", data |-> data,
                   forecast |-> ForecastWith(0, confidence), done |-> FALSE]

ApplyInsights ==
    /\ call.op = "generateInsights" /\ ~call.done
    /\ call' = [op |-> "generateInsights", data |-> call.data, forecast |-> call.forecast,
                done |-> TRUE, out |-> generateInsights(call.data, call.forecast)]
    /\ UNCHANGED dashVars

NextInsights == ApplyInsights

SpecInsights == InitInsights /\ [][NextInsights]_vars

\* stock levels handed to calculateBusinessImpact are in 0..MaxImpactStock
MaxImpactStock == 15

\* unit prices: decimal(10,2) values, free goods included
Prices == {Num(0), Num(1), R(999, 100), R(25, 2), Num(20)}

InitImpact ==
    /\ InitDash
    /\ \E currentStock \in 0..MaxImpactStock : \E recommendedStock \in 0..MaxImpactStock :
       \E unitPrice \in Prices :
           call = [op |-> "calculateBusinessImpact", currentStock |-> currentStock,
                   recommendedStock |-> recommendedStock, unitPrice |-> unitPrice,
                   done |-> FALSE]

ApplyImpact ==
    /\ call.op = "calculateBusinessImpact" /\ ~call.done
    /\ call' = [op |-> "calculateBusinessImpact", currentStock |-> call.currentStock,
                recommendedStock |-> call.recommendedStock, unitPrice |-> call.unitPrice,
                done |-> TRUE,
                out |-> calculateBusinessImpact(Num(call.currentStock),
                            Num(call.recommendedStock), Num(call.recommendedStock),
                            call.unitPrice)]
    /\ UNCHANGED dashVars

NextImpact == ApplyImpact

SpecImpact == InitImpact /\ [][NextImpact]_vars

\* the what-if simulation of a recommendation: forward predictions in
\* 0..MaxWhatIfDemand, current stock in 0..MaxWhatIfStock
MaxWhatIfDemand == 10
MaxWhatIfStock == 20

\* one confidence of each safety-stock band
BandConfidences == {Num(50), Num(70), Num(90)}

\* positions of the discount slider
DiscountSamples == {0, 10, 25, 50}

\* positions of the stock slider for a product of current stock s and a
\* recommendation rec: where the effect on [selectedProduct] puts it, and the
\* two ends of the slider
StockSamples(s, rec) == {0, s, rec.recommendedStock * 2}

InitWhatIf ==
    /\ InitDash
    /\ \E value \in 0..MaxWhatIfDemand : \E confidence \in BandConfidences :
       \E s \in 0..MaxWhatIfStock : \E price \in {R(25, 2), Num(20)} :
       \E discount \in DiscountSamples :
       \E stock \in StockSamples(s, calculateInventoryRecommendation(
                                       ForecastWith(value, confidence), s)) :
           call = [op |-> "runWhatIfSimulation",
                   forecast |-> ForecastWith(value, confidence),
                   product |-> [id |-> "A", current_stock |-> s, unit_price |-> price],
                   whatIfStock |-> stock, whatIfDiscount |-> discount, done |-> FALSE]

\* the recommendation and business impact as generateForecast computes them for
\* the product, and the simulation of that recommendation
ApplyWhatIf ==
    /\ call.op = "runWhatIfSimulation" /\ ~call.done
    /\ LET inventoryRec == calculateInventoryRecommendation(
                                call.forecast, call.product.current_stock)
           impact == calculateBusinessImpact(
                         Num(call.product.current_stock),
                         Num(inventoryRec.recommendedStock),
                         Num(inventoryRec.forecastedDemand),
                         call.product.unit_price)
       IN  call' = [op |-> "runWhatIfSimulation", forecast |-> call.forecast,
                    product |-> call.product, whatIfStock |-> call.whatIfStock,
                    whatIfDiscount |-> call.whatIfDiscount, done |-> TRUE,
                    recommendation |-> inventoryRec,
                    businessImpact |-> impact,
                    out |-> WhatIf(inventoryRec, call.product, call.whatIfStock,
                                   call.whatIfDiscount)]
    /\ UNCHANGED dashVars

NextWhatIf == ApplyWhatIf

SpecWhatIf == InitWhatIf /\ [][NextWhatIf]_vars

\* histories handed to the three models together: every one of 1..MaxFitLen
\* quantities in 0..MaxFitQty, and longer, rising, falling and constant ones
MaxFitLen == 4
MaxFitQty == 2

FitHistories ==
    {History(qs) : qs \in SeqsOf(0..MaxFitQty, 1, MaxFitLen)}
    \cup {History(<<10, 12, 11, 13, 14, 12, 15, 16>>),
          History(<<9, 7, 8, 5, 4, 2, 1, 0>>),
          History(<<20, 0>>),
          History(<<10, 5, 0>>),
          History(<<6, 6, 6, 6, 6, 6, 6>>),
          History(<<1, 6, 3>>)}

InitFit ==
    /\ InitDash
    /\ \E data \in FitHistories : \E window \in Windows :
           call = [op |-> "fit", data |-> data, window |-> window, done |-> FALSE]

\* the three models on one history; linearRegression from two points on
ApplyFit ==
    /\ call.op = "fit" /\ ~call.done
    /\ call' = [op |-> "fit", data |-> call.data, window |-> call.window, done |-> TRUE,
                ma |-> movingAverage(call.data, call.window),
                es |-> exponentialSmoothing(call.data, Alpha),
                lr |-> IF Len(call.data) >= 2 THEN linearRegression(call.data) ELSE Null]
    /\ UNCHANGED dashVars

NextFit == ApplyFit

SpecFit == InitFit /\ [][NextFit]_vars

Init == InitDash /\ call = NoCall

Next ==
    \/ Mount
    \/ loadProducts
    \/ SelectProduct
    \/ loadSalesData
    \/ ClickGenerate
    \/ generateForecast
    \/ InsertDone
    \/ SetWhatIfStock
    \/ SetWhatIfDiscount

Spec == Init /\ [][Next]_vars

\* the timer of the pacing delay fires: WF_vars(generateForecast) written out,
\* ENABLED <<generateForecast>>_vars being Generating # {} (the step takes its
\* request out of pending)
TimerFires ==
    \/ []<>({req \in pending : req.op = "generateForecast"} = {})
    \/ []<><<generateForecast>>_vars

\* the dashboard with the timer of the pacing delay firing and the insert
\* answering (with the row stored or with an error)
SpecLive == Spec /\ TimerFires /\ WF_vars(InsertDone)

----------------------------------------------------------------------------
(* Properties *)

Done(op) == call.op = op /\ call.done

\* C1: for every history the gate lets through, selectBestModel returns the
\* model of lowest mape among Moving Average, Exponential Smoothing and Linear
\* Regression, the earliest of them in that order when the lowest mape is tied.
C1_LowestMapeEarliest ==
    Done("selectBestModel") =>
        \E k \in 1..3 :
            /\ call.out = call.models[k]
            /\ \A j \in 1..3 : RLe(call.models[k].metrics.mape, call.models[j].metrics.mape)
            /\ \A j \in 1..(k - 1) : RLt(call.models[k].metrics.mape, call.models[j].metrics.mape)

\* the product selected has fewer than 7 rows in sales_data
InsufficientHistory ==
    selectedProduct # Null /\ Len(SalesTable[selectedProduct.id]) < 7

\* C2: a Generate Forecast click made while the selected product has fewer than
\* 7 history points is refused: no pipeline run is started, forecast,
\* recommendation, insights, businessImpact and generating stay as they are,
\* and nothing is sent to the forecasts table.
C2_InsufficientRefused ==
    [][(last'.op = "generateForecast" /\ InsufficientHistory)
         => /\ ~last'.accepted
            /\ UNCHANGED <<forecast, recommendation, insights, businessImpact,
                           generating, forecasts, pending>>]_vars

\* C3: calculateInventoryRecommendation returns recommendedStock =
\* round(forecastedDemand) + safetyStock with safetyStock >= 0, so
\* recommendedStock >= forecastedDemand, forecastedDemand being the forward
\* prediction.
C3_RecommendedStock ==
    Done("calculateInventoryRecommendation") =>
        LET fc == call.forecast
            out == call.out
        IN  /\ out.forecastedDemand = fc.predictions[Len(fc.predictions)].value
            /\ out.recommendedStock = MathRound(Num(out.forecastedDemand)) + out.safetyStock
            /\ out.safetyStock >= 0
            /\ out.recommendedStock >= out.forecastedDemand

\* a recommendation with a buffer on top of a positive demand
C3_Witness ==
    /\ Done("calculateInventoryRecommendation")
    /\ call.out.forecastedDemand > 0
    /\ call.out.safetyStock > 0
    /\ call.out.recommendedStock > call.out.forecastedDemand

\* C4: safetyStock = round(forecastedDemand * p) with p = 0.10 for confidence >
\* 80, 0.15 for 60 < confidence <= 80 and 0.20 for confidence <= 60.
C4_SafetyStockBands ==
    Done("calculateInventoryRecommendation") =>
        LET c == call.forecast.confidence
            d == call.out.forecastedDemand
            ss == call.out.safetyStock
        IN  /\ RGt(c, Num(80)) => ss = MathRound(R(d * 10, 100))
            /\ (RGt(c, Num(60)) /\ RLe(c, Num(80))) => ss = MathRound(R(d * 15, 100))
            /\ RLe(c, Num(60)) => ss = MathRound(R(d * 20, 100))

\* confidence exactly 80 with a demand of 10: the buffer is round(1.5) = 2, not 1
C4_Witness ==
    /\ Done("calculateInventoryRecommendation")
    /\ call.forecast.confidence = Num(80)
    /\ call.out.forecastedDemand = 10
    /\ call.out.safetyStock = 2

\* C5: for a fixed forward prediction, a confidence no higher never gives a
\* lower recommendedStock.
C5_MonotoneInConfidence ==
    Done("calculateInventoryRecommendation") =>
        \A c2 \in Confidences :
            RLe(c2, call.forecast.confidence) =>
                calculateInventoryRecommendation(
                    ForecastWith(call.out.forecastedDemand, c2), call.currentStock
                ).recommendedStock >= call.out.recommendedStock

\* a confidence of 81 and one of 60 below it that recommends strictly more
C5_Witness ==
    /\ Done("calculateInventoryRecommendation")
    /\ call.forecast.confidence = Num(81)
    /\ calculateInventoryRecommendation(
           ForecastWith(call.out.forecastedDemand, Num(60)), call.currentStock
       ).recommendedStock > call.out.recommendedStock

\* C6: the risk is Medium when currentStock >= 1.5 * recommendedStock, else
\* High when currentStock < 0.8 * forecastedDemand, else Low, and the reasoning
\* is the message of that level.
C6_RiskFirstMatch ==
    Done("calculateInventoryRecommendation") =>
        LET s == call.currentStock
            d == call.out.forecastedDemand
            r == call.out.recommendedStock
        IN  IF 2 * s >= 3 * r
            THEN call.out.riskLevel = "Medium" /\ call.out.reasoning = OverstockReasoning
            ELSE IF 5 * s < 4 * d
            THEN call.out.riskLevel = "High" /\ call.out.reasoning = CriticalReasoning
            ELSE call.out.riskLevel = "Low" /\ call.out.reasoning = OptimalReasoning

\* current stock exactly 1.5 times a positive recommended stock: Medium
C6_Witness ==
    /\ Done("calculateInventoryRecommendation")
    /\ call.out.recommendedStock > 0
    /\ 2 * call.currentStock = 3 * call.out.recommendedStock
    /\ call.out.riskLevel = "Medium"

\* C7: the overstock test and the stockout test never hold together, so a
\* product with currentStock >= recommendedStock is never High and the order
\* of the two tests does not matter.
C7_TestsExclusive ==
    Done("calculateInventoryRecommendation") =>
        LET s == call.currentStock
            d == call.out.forecastedDemand
            r == call.out.recommendedStock
            overstock == 2 * s >= 3 * r
            stockout == 5 * s < 4 * d
            swapped == IF stockout THEN "High" ELSE IF overstock THEN "Medium" ELSE "Low"
        IN  /\ ~(overstock /\ stockout)
            /\ s >= r => call.out.riskLevel # "High"
            /\ call.out.riskLevel = swapped

\* a positive demand with the overstock test true
C7_Witness ==
    /\ Done("calculateInventoryRecommendation")
    /\ call.out.forecastedDemand > 0
    /\ 2 * call.currentStock >= 3 * call.out.recommendedStock

\* C8: calculateMetrics(s, s) of a non-empty s has mae = rmse = mape = 0, and
\* the confidence max(0, 100 - mape) is 100.
C8_MetricsOfEqual ==
    (Done("calculateMetrics") /\ call.actual = call.predicted /\ Len(call.actual) >= 1) =>
        /\ call.out.mae = Num(0)
        /\ call.out.rmseSq = Num(0)
        /\ call.out.mape = Num(0)
        /\ ConfidenceOf(call.out) = Num(100)

\* a sequence of MaxSeq entries, not all zero, scored against itself
C8_Witness ==
    /\ Done("calculateMetrics")
    /\ call.actual = call.predicted
    /\ Len(call.actual) = MaxSeq
    /\ \E i \in 1..MaxSeq : call.actual[i] # 0

\* the product of the non-zero entries among the first n of a sequence
RECURSIVE NonZeroProduct(_, _)
NonZeroProduct(arr, n) ==
    IF n = 0 THEN 1
    ELSE (IF arr[n] = 0 THEN 1 ELSE arr[n]) * NonZeroProduct(arr, n - 1)

\* the sum over the indices i in S of f[i]
RECURSIVE SumOver(_, _)
SumOver(S, f) ==
    IF S = {} THEN 0
    ELSE LET i == CHOOSE x \in S : TRUE IN f[i] + SumOver(S \ {i}, f)

\* C9: over the n = min(len(actual), len(predicted)) compared indices, when
\* n >= 1, mape = 100 * (sum over the indices of non-zero actual of
\* |actual - predicted| / actual) / n, mae = (sum over all n of |actual -
\* predicted|) / n and mse likewise: a zero actual adds nothing to mape and
\* |predicted| to mae; with n = 0 the three are NaN, not an error.
C9_MapeOverAllIndices ==
    Done("calculateMetrics") =>
        LET a == call.actual
            p == call.predicted
            n == Min(Len(a), Len(p))
            D == NonZeroProduct(a, n)
            nonZero == {i \in 1..n : a[i] # 0}
            err == [i \in 1..n |-> Abs(a[i] - p[i])]
        IN  IF n = 0
            THEN IsNaN(call.out.mae) /\ IsNaN(call.out.rmseSq) /\ IsNaN(call.out.mape)
            ELSE /\ call.out.mape =
                        R(100 * SumOver(nonZero, [i \in nonZero |-> err[i] * (D \div a[i])]), D * n)
                 /\ call.out.mae = R(SumOver(1..n, err), n)
                 /\ call.out.rmseSq = R(SumOver(1..n, [i \in 1..n |-> err[i] * err[i]]), n)

\* sequences of different lengths with a zero actual against a non-zero
\* prediction and a non-zero actual that is missed
C9_Witness ==
    /\ Done("calculateMetrics")
    /\ Len(call.actual) # Len(call.predicted)
    /\ \E i, j \in 1..Min(Len(call.actual), Len(call.predicted)) :
           /\ call.actual[i] = 0 /\ call.predicted[i] # 0
           /\ call.actual[j] > 1 /\ call.predicted[j] # call.actual[j]

\* a number that is defined and within 0..100
Percentage(x) == ~IsNaN(x) /\ RGe(x, Num(0)) /\ RLe(x, Num(100))

\* C10: for every history the gate lets through (7 points included), the three
\* models and the one selected have defined mae, rmse and mape and a confidence
\* max(0, 100 - mape) within 0..100.
C10_NoDegenerateForecast ==
    Done("selectBestModel") =>
        \A m \in {call.models[k] : k \in 1..3} \cup {call.out} :
            /\ ~IsNaN(m.metrics.mae)
            /\ ~IsNaN(m.metrics.rmseSq)
            /\ ~IsNaN(m.metrics.mape)
            /\ m.confidence = RMax(Num(0), RSub(Num(100), m.metrics.mape))
            /\ Percentage(m.confidence)

\* v is Math.round(s / n), for n > 0
IsRoundOf(v, s, n) == 2 * n * v <= 2 * s + n /\ 2 * s + n < 2 * n * (v + 1)

\* the sum of the entries of 1-based index from..to of a sequence
SumRange(arr, from, to) == SumOver(from..to, [i \in from..to |-> arr[i]])

\* C11: for a window w >= 1 and a history of n > w points, movingAverage emits
\* for each index i = w..n-1 the fitted value round(mean of values[i-w..i-1])
\* dated as point i, then the forward forecast round(mean of the last w values),
\* and scores values[w..] against the fitted values; for w = 3 and quantities
\* [10,12,11,13,14,12,15,16] the fitted values are [11,12,13,13,14], the forward
\* forecast is 14 and mae is 9 / 5.
C11_MovingAverageFit ==
    (Done("movingAverage") /\ Len(call.data) > call.window) =>
        LET w == call.window
            n == Len(call.data)
            values == Values(call.data)
            preds == call.out.predictions
            fitted == [k \in 1..(n - w) |-> preds[k].value]
            err == [k \in 1..(n - w) |-> Abs(values[w + k] - fitted[k])]
        IN  /\ Len(preds) = n - w + 1
            /\ \A k \in 1..(n - w) :
                   /\ preds[k].date = call.data[w + k].date
                   /\ IsRoundOf(preds[k].value, SumRange(values, k, k + w - 1), w)
            /\ preds[n - w + 1].date = Tomorrow
            /\ IsRoundOf(preds[n - w + 1].value, SumRange(values, n - w + 1, n), w)
            /\ call.out.metrics = calculateMetrics(SubSeq(values, w + 1, n), fitted)
            /\ call.out.metrics.mae = R(SumOver(1..(n - w), err), n - w)
            /\ (w = 3 /\ values = <<10, 12, 11, 13, 14, 12, 15, 16>>) =>
                   /\ fitted = <<11, 12, 13, 13, 14>>
                   /\ preds[6].value = 14
                   /\ SumOver(1..5, err) = 9
                   /\ call.out.metrics.mae = R(18, 10)

\* the worked example: window 3 on the eight quantities
C11_Witness ==
    /\ Done("movingAverage")
    /\ call.window = 3
    /\ Values(call.data) = <<10, 12, 11, 13, 14, 12, 15, 16>>
    /\ PredValues(call.out.predictions) = <<11, 12, 13, 13, 14, 14>>

\* C12: generateInsights returns exactly those of trend, festival, anomaly,
\* seasonal whose own trigger holds, in that order, each at most once: festival
\* iff there is a festival day and the festival mean exceeds 1.3 times the
\* non-festival mean (impact positive); anomaly iff max > 2 * overall mean or
\* min < 0.3 * overall mean (impact neutral); seasonal iff confidence < 70
\* (impact neutral); trend, for a history of 7 days or more, iff the mean of the
\* last 7 differs from the overall mean by more than 15 % of it.  No trigger
\* reads another insight.
C12_InsightsByOwnTrigger ==
    Done("generateInsights") =>
        LET data == call.data
            n == Len(data)
            values == Values(data)
            out == call.out
            S == SumOver(1..n, values)
            S7 == SumOver((n - 6)..n, [i \in (n - 6)..n |-> IF i >= 1 THEN values[i] ELSE 0])
            F == {i \in 1..n : data[i].is_festival}
            nF == Cardinality(F)
            SF == SumOver(F, [i \in F |-> values[i]])
            max == CHOOSE v \in {values[i] : i \in 1..n} : \A i \in 1..n : values[i] <= v
            min == CHOOSE v \in {values[i] : i \in 1..n} : \A i \in 1..n : values[i] >= v
            trend == IF n >= 7
                     THEN S > 0 /\ 100 * Abs(S7 * n - 7 * S) > 105 * S
                     ELSE out # <<>> /\ out[1].type = "trend"
            festival == nF > 0 /\ nF < n /\ 10 * SF * (n - nF) > 13 * (S - SF) * nF
            anomaly == max * n > 2 * S \/ 10 * min * n < 3 * S
            seasonal == RLt(call.forecast.confidence, Num(70))
            expected == (IF trend THEN <<"trend">> ELSE <<>>)
                        \o (IF festival THEN <<"festival">> ELSE <<>>)
                        \o (IF anomaly THEN <<"anomaly">> ELSE <<>>)
                        \o (IF seasonal THEN <<"seasonal">> ELSE <<>>)
        IN  /\ [i \in 1..Len(out) |-> out[i].type] = expected
            /\ \A i \in 1..Len(out) :
                   /\ out[i].type = "festival" => out[i].impact = "positive"
                   /\ out[i].type \in {"anomaly", "seasonal"} => out[i].impact = "neutral"

\* a history of 8 days that triggers all four
C12_Witness ==
    /\ Done("generateInsights")
    /\ Len(call.data) >= 7
    /\ [i \in 1..Len(call.out) |-> call.out[i].type]
           = <<"trend", "festival", "anomaly", "seasonal">>

\* C13: calculateBusinessImpact returns stockoutReduction = 75 when
\* recommendedStock > currentStock and 95 otherwise, and revenueIncrease =
\* round((recommendedStock - currentStock) * 0.3 * unitPrice) when
\* recommendedStock > currentStock and 0 otherwise.
C13_StockoutAndRevenue ==
    Done("calculateBusinessImpact") =>
        LET c == call.currentStock
            r == call.recommendedStock
            price == call.unitPrice
        IN  IF r > c
            THEN /\ call.out.stockoutReduction = 75
                 /\ call.out.revenueIncrease.den = 1
                 /\ IsRoundOf(call.out.revenueIncrease.num,
                              (r - c) * 3 * price.num, 10 * price.den)
            ELSE /\ call.out.stockoutReduction = 95
                 /\ call.out.revenueIncrease = Num(0)

\* a shortfall at a price with cents, and a revenue increase reported for it
C13_Witness ==
    /\ Done("calculateBusinessImpact")
    /\ call.recommendedStock > call.currentStock
    /\ call.unitPrice = R(999, 100)
    /\ call.out.stockoutReduction = 75
    /\ RGt(call.out.revenueIncrease, Num(0))

\* C14: overstockReduction = round(max(0, currentStock - 1.2 * recommendedStock)
\* / max(currentStock, 1) * 100), which is within 0..100, and with
\* currentStock = 0 it is 0 and costSavings is 0, nothing being divided by 0.
C14_OverstockReduction ==
    Done("calculateBusinessImpact") =>
        LET c == call.currentStock
            r == call.recommendedStock
            red == call.out.overstockReduction
        IN  /\ red.den = 1
            /\ IsRoundOf(red.num, Max(0, 10 * c - 12 * r) * 100, 10 * Max(c, 1))
            /\ red.num >= 0 /\ red.num <= 100
            /\ c = 0 => red = Num(0) /\ call.out.costSavings = Num(0)

\* no stock at all against a positive recommendation at a positive price
C14_Witness ==
    /\ Done("calculateBusinessImpact")
    /\ call.currentStock = 0
    /\ call.recommendedStock > 0
    /\ RGt(call.unitPrice, Num(0))
    /\ call.out.overstockReduction = Num(0)

\* C15: the what-if simulation of a recommendation with discount 0 and the
\* product's current stock has the recommendation's risk level, adjustedDemand
\* = forecastedDemand, adjustedRecommendedStock = recommendedStock and the
\* business impact generateForecast computed.
C15_WhatIfIdentity ==
    (/\ Done("runWhatIfSimulation")
     /\ call.whatIfDiscount = 0
     /\ call.whatIfStock = call.product.current_stock) =>
        /\ call.out.riskLevel = call.recommendation.riskLevel
        /\ call.out.adjustedDemand = call.recommendation.forecastedDemand
        /\ call.out.adjustedRecommendedStock = call.recommendation.recommendedStock
        /\ call.out.impact = call.businessImpact

\* the identity at the overstock boundary: stock 9 against a recommendation of 6
C15_Witness ==
    /\ Done("runWhatIfSimulation")
    /\ call.whatIfDiscount = 0
    /\ call.whatIfStock = call.product.current_stock
    /\ call.recommendation.recommendedStock > 0
    /\ 2 * call.whatIfStock = 3 * call.recommendation.recommendedStock
    /\ call.out.riskLevel = "Medium"

\* C16: while a recommendation exists, a change of whatIfStock or
\* whatIfDiscount is followed by a recomputation: once the change has settled,
\* whatIfResults is the simulation of the current recommendation under the
\* current whatIfStock and whatIfDiscount, never under a previous value.
C16_RecomputedOnChange ==
    [][(/\ recommendation # Null /\ recommendation' # Null
        /\ <<whatIfStock, whatIfDiscount>>' # <<whatIfStock, whatIfDiscount>>)
         => whatIfResults' = WhatIf(recommendation', selectedProduct',
                                     whatIfStock', whatIfDiscount')]_vars

\* both sliders moved off their first positions, the discount last
C16_Witness ==
    /\ last.op = "setWhatIfDiscount"
    /\ whatIfDiscount = 20
    /\ whatIfStock = 30
    /\ recommendation # Null
    /\ whatIfResults # Null
    /\ whatIfResults.adjustedDemand > recommendation.forecastedDemand

\* C17: a what-if simulation step changes whatIfResults (and the slider moved)
\* only: the forecasts table gets no insert, and forecast, recommendation,
\* insights, businessImpact, salesData and the selected product stay as they
\* are.
C17_WhatIfFrame ==
    [][last'.op \in {"setWhatIfStock", "setWhatIfDiscount"}
         => UNCHANGED <<forecasts, audit, pending, forecast, recommendation, insights,
                        businessImpact, salesData, selectedProduct, products,
                        loading, generating>>]_vars

\* a simulation run after a forecast was stored
C17_Witness ==
    /\ last.op = "setWhatIfStock"
    /\ whatIfResults # Null
    /\ whatIfResults.adjustedRecommendedStock = recommendation.recommendedStock
    /\ forecasts # <<>>

\* generateForecast runs in flight before their insert, and the inserts in flight
Generating == {req \in pending : req.op = "generateForecast"}
Inserting == {req \in pending : req.op = "insert"}

\* the inserts sent account for the clicks accepted, and the rows stored for
\* the inserts sent
InsertsAccounted ==
    /\ audit.accepted = Len(audit.inserts) + Cardinality(Generating)
    /\ Len(forecasts) + Cardinality(Inserting) <= Len(audit.inserts)
    /\ \A i \in 1..Len(forecasts) :
           \E j \in 1..Len(audit.inserts) : forecasts[i] = audit.inserts[j]

\* a step that sends an insert sends one, from generateForecast, of the row of
\* the forecast and recommendation it has just set
InsertSent ==
    (audit'.inserts # audit.inserts \/ Inserting' \ Inserting # {}) =>
        /\ last'.op = "generateForecastResume"
        /\ \E req \in Inserting' \ Inserting :
               /\ Inserting' \ Inserting = {req}
               /\ audit'.inserts = Append(audit.inserts, req.row)
               /\ req.row.model_used = forecast'.model
               /\ req.row.confidence_score = forecast'.confidence
               /\ req.row.forecast_date =
                      forecast'.predictions[Len(forecast'.predictions)].date
               /\ req.row.predicted_demand = recommendation'.forecastedDemand
               /\ req.row.recommended_stock = recommendation'.recommendedStock
               /\ req.row.safety_stock = recommendation'.safetyStock
               /\ req.row.risk_level = recommendation'.riskLevel

\* a step that counts a click is an accepted click, counted once
ClickCounted ==
    audit'.accepted # audit.accepted =>
        /\ last'.op = "generateForecast"
        /\ last'.accepted
        /\ audit'.accepted = audit.accepted + 1

\* a step that changes the forecasts table appends the row of an insert in flight
OnlyAppended ==
    forecasts' # forecasts =>
        /\ last'.op = "insert"
        /\ \E req \in Inserting : forecasts' = Append(forecasts, req.row)

C19_DelayHarmless ==
    [][last'.op = "generateForecastResume" =>
         \A req \in Generating :
             req.salesData = SalesTable[req.selectedProduct.id] =>
                 LET product == selectedProduct'
                     history == SalesTable[product.id]
                 IN  /\ forecast' = selectBestModel(history)
                     /\ recommendation' =
                            calculateInventoryRecommendation(forecast', product.current_stock)
                     /\ insights' = generateInsights(history, forecast')
                     /\ businessImpact' =
                            calculateBusinessImpact(
                                Num(product.current_stock),
                                Num(recommendation'.recommendedStock),
                                Num(recommendation'.forecastedDemand),
                                product.unit_price)
                     /\ \A ins \in Inserting' \ Inserting : ins.row.product_id = product.id]_vars

\* C20: for a history no longer than the window, movingAverage has no fitted
\* point: predictions is the forward forecast alone, its value the rounded mean
\* of the last `window` values, which is the mean of all the values there are
\* when they are fewer than `window`, and the metrics are those of zero pairs.
C20_ShortHistoryForward ==
    (Done("movingAverage") /\ Len(call.data) <= call.window) =>
        LET n == Len(call.data)
            values == Values(call.data)
            preds == call.out.predictions
        IN  /\ Len(preds) = 1
            /\ preds[1].date = Tomorrow
            /\ n >= 1 => IsRoundOf(preds[1].value, SumRange(values, 1, n), n)
            /\ call.out.metrics = calculateMetrics(<<>>, <<>>)
            /\ IsNaN(call.out.metrics.mae)
            /\ IsNaN(call.out.metrics.rmseSq)
            /\ IsNaN(call.out.metrics.mape)

RECURSIVE Pow(_, _)
Pow(b, e) == IF e = 0 THEN 1 ELSE b * Pow(b, e - 1)

\* 10^i times the smoothed value s_i of a sequence of values (i 0-based), with
\* s_0 = values[0] and s_i = 0.3 * values[i] + 0.7 * s_(i-1), in closed form
SmoothedTimesPow10(values, i) ==
    Pow(7, i) * values[1]
    + SumOver(1..i, [k \in 1..i |-> 3 * values[k + 1] * Pow(7, i - k) * Pow(10, k - 1)])

\* C21 as claimed: exponentialSmoothing with alpha = 0.3 records, for each of
\* the n >= 1 points, the smoothed value s_i itself (s_0 = values[0], s_i =
\* alpha * values[i] + (1 - alpha) * s_(i-1)), and the forward forecast is
\* s_(n-1).
C21_SmoothedRecorded ==
    Done("fit") =>
        LET n == Len(call.data)
            values == Values(call.data)
            preds == call.es.predictions
        IN  /\ Len(preds) = n + 1
            /\ \A i \in 0..(n - 1) :
                   /\ preds[i + 1].date = call.data[i + 1].date
                   /\ preds[i + 1].value * Pow(10, i) = SmoothedTimesPow10(values, i)
            /\ preds[n + 1].value * Pow(10, n - 1) = SmoothedTimesPow10(values, n - 1)

\* C21 as amended: the value recorded at each index i is Math.round(s_i), the
\* smoothing itself carrying the unrounded s_i, and the forward forecast is
\* Math.round(s_(n-1)).
C21_SmoothedRounded ==
    Done("fit") =>
        LET n == Len(call.data)
            values == Values(call.data)
            preds == call.es.predictions
        IN  /\ Len(preds) = n + 1
            /\ preds[1].value = values[1]
            /\ \A i \in 0..(n - 1) :
                   /\ preds[i + 1].date = call.data[i + 1].date
                   /\ IsRoundOf(preds[i + 1].value, SmoothedTimesPow10(values, i), Pow(10, i))
            /\ preds[n + 1].date = Tomorrow
            /\ preds[n + 1].value = preds[n].value

\* [1, 6, 3]: s_1 = 2.5 is recorded as 3, and s_2 = 2.65, not 0.3 * 3 + 0.7 * 3
\* = 3, is recorded as 3 and forecast
C21_Witness ==
    /\ Done("fit")
    /\ Values(call.data) = <<1, 6, 3>>
    /\ PredValues(call.es.predictions) = <<1, 3, 3, 3>>

\* C22: linearRegression on n >= 2 points fits the least-squares line of the
\* quantities against the indices 0..n-1 (the solution a, b of the normal
\* equations a * Sxx + b * Sx = Sxy, a * Sx + b * n = Sy) and returns
\* max(0, round(a * i + b)) at each index i and, as the forward forecast, at
\* i = n; no prediction is negative, and for a constant history every
\* prediction is that constant and mape is 0.
C22_LeastSquaresClamped ==
    (Done("fit") /\ Len(call.data) >= 2) =>
        LET n == Len(call.data)
            values == Values(call.data)
            preds == call.lr.predictions
            Sx == SumOver(0..(n - 1), [i \in 0..(n - 1) |-> i])
            Sxx == SumOver(0..(n - 1), [i \in 0..(n - 1) |-> i * i])
            Sy == SumOver(1..n, values)
            Sxy == SumOver(0..(n - 1), [i \in 0..(n - 1) |-> i * values[i + 1]])
            D == n * Sxx - Sx * Sx
            \* D * (a * i + b), by Cramer's rule
            line == [i \in 0..n |-> (n * Sxy - Sx * Sy) * i + (Sy * Sxx - Sx * Sxy)]
        IN  /\ D > 0
            /\ Len(preds) = n + 1
            /\ \A i \in 0..n :
                   /\ preds[i + 1].value >= 0
                   /\ IF 2 * line[i] + D >= 0
                      THEN IsRoundOf(preds[i + 1].value, line[i], D)
                      ELSE preds[i + 1].value = 0
                   /\ preds[i + 1].date = IF i < n THEN call.data[i + 1].date ELSE Tomorrow
            /\ (\A i \in 1..n : values[i] = values[1]) =>
                   /\ \A i \in 1..(n + 1) : preds[i].value = values[1]
                   /\ call.lr.metrics.mape = Num(0)

\* [10, 5, 0]: the line reaches -5 at the forward index and 0 is forecast
C22_Witness ==
    /\ Done("fit")
    /\ Values(call.data) = <<10, 5, 0>>
    /\ PredValues(call.lr.predictions) = <<10, 5, 0, 0>>

\* the mean absolute error of k fitted values against the k history values
\* that follow the first `offset` ones (NaN for k = 0)
ScoredMae(values, offset, fitted, k) ==
    R(SumOver(1..k, [i \in 1..k |-> Abs(values[offset + i] - fitted[i])]), k)

\* the predictions are k fitted entries dated as the points offset+1.. of the
\* history, then one forward entry, and the metrics are those of the fitted
\* entries against the history values of the same positions
FittedThenForward(result, data, offset, k) ==
    LET preds == result.predictions
    IN  /\ Len(preds) = k + 1
        /\ \A i \in 1..k : preds[i].date = data[offset + i].date
        /\ preds[k + 1].date = Tomorrow
        /\ result.metrics =
               calculateMetrics(SubSeq(Values(data), offset + 1, offset + k),
                                [i \in 1..k |-> preds[i].value])
        /\ result.metrics.mae =
               ScoredMae(Values(data), offset, [i \in 1..k |-> preds[i].value], k)

\* C23: the predictions of each model end with exactly one forward entry
\* (n + 1 entries for Exponential Smoothing and Linear Regression,
\* max(0, n - window) + 1 for Moving Average), and the metrics are those of the
\* fitted entries before it paired index by index with the history values of
\* the same positions (from index `window` on for Moving Average, all for the
\* other two): the forward value is not scored.
C23_ForwardNotScored ==
    Done("fit") =>
        LET n == Len(call.data)
            w == call.window
        IN  /\ FittedThenForward(call.ma, call.data, Min(w, n), Max(0, n - w))
            /\ FittedThenForward(call.es, call.data, 0, n)
            /\ n >= 2 => FittedThenForward(call.lr, call.data, 0, n)

\* a window shorter than the history, values that differ, and a forward value
\* unlike the last fitted one
C23_Witness ==
    /\ Done("fit")
    /\ call.window = 3
    /\ Values(call.data) = <<10, 12, 11, 13, 14, 12, 15, 16>>
    /\ Len(call.ma.predictions) = 6
    /\ call.ma.metrics.mae = R(9, 5)
    /\ call.lr.predictions[9].value # call.lr.predictions[8].value

\* C24: generateInsights emits a trend insight iff
\* |recentAvg - overallAvg| / overallAvg > 0.15, recentAvg the mean of the last
\* 7 values (of all of them when there are fewer) and overallAvg the mean of
\* the whole series; it is labelled increasing with impact positive when
\* recentAvg > overallAvg and decreasing with impact negative otherwise; none
\* is emitted at exactly 15 % or when overallAvg is 0.
C24_TrendByRecentMean ==
    Done("generateInsights") =>
        LET values == Values(call.data)
            n == Len(values)
            m == Min(7, n)
            out == call.out
            S == SumOver(1..n, values)
            Sm == SumOver((n - m + 1)..n, [i \in (n - m + 1)..n |-> values[i]])
            \* |Sm/m - S/n| / (S/n) > 15/100, for S > 0
            trend == S > 0 /\ 100 * Abs(Sm * n - m * S) > 15 * m * S
            emitted == {i \in 1..Len(out) : out[i].type = "trend"}
        IN  /\ trend <=> emitted # {}
            /\ Cardinality(emitted) <= 1
            /\ \A i \in emitted :
                   IF Sm * n > m * S
                   THEN out[i].title = "Demand is increasing" /\ out[i].impact = "positive"
                   ELSE out[i].title = "Demand is decreasing" /\ out[i].impact = "negative"

\* the same for the histories of 7 days or more
C24_TrendOfLongHistory ==
    (Done("generateInsights") /\ Len(call.data) >= 7) => C24_TrendByRecentMean

\* a history whose last 7 days are exactly 15 % below the overall mean
C24_ExactlyFifteen ==
    /\ Done("generateInsights")
    /\ Values(call.data) = <<27, 27, 27, 17, 17, 17, 17, 17, 17, 17>>
    /\ \A i \in 1..Len(call.out) : call.out[i].type # "trend"

\* C25: the what-if simulation takes adjustedDemand = forecastedDemand *
\* (1 + discount/100 * 0.5) (shown rounded), adjustedRecommendedStock =
\* round(adjustedDemand + safetyStock) with the safety stock of the
\* recommendation, risk Medium when stock >= 1.5 * adjustedRecommendedStock,
\* else High when stock < 0.8 * adjustedDemand, else Low, and the business
\* impact of the stock against adjustedRecommendedStock at the price
\* unit_price * (1 - discount/100).
C25_WhatIfFormulas ==
    Done("runWhatIfSimulation") =>
        LET fd == call.recommendation.forecastedDemand
            ss == call.recommendation.safetyStock
            d == call.whatIfDiscount
            stock == call.whatIfStock
            out == call.out
            \* 200 * adjustedDemand
            ad200 == fd * (200 + d)
            adjRec == out.adjustedRecommendedStock
        IN  /\ IsRoundOf(out.adjustedDemand, ad200, 200)
            /\ IsRoundOf(adjRec, ad200 + 200 * ss, 200)
            /\ out.riskLevel = (IF 2 * stock >= 3 * adjRec THEN "Medium"
                                ELSE IF 1000 * stock < 4 * ad200 THEN "High"
                                ELSE "Low")
            /\ out.impact =
                   calculateBusinessImpact(Num(stock), Num(adjRec), R(ad200, 200),
                                           R(call.product.unit_price.num * (100 - d),
                                             call.product.unit_price.den * 100))

\* a discounted simulation with a safety stock, the stock between the two
\* thresholds
C25_Witness ==
    /\ Done("runWhatIfSimulation")
    /\ call.whatIfDiscount = 50
    /\ call.recommendation.safetyStock > 0
    /\ call.recommendation.forecastedDemand > 0
    /\ call.whatIfStock > 0
    /\ call.out.adjustedRecommendedStock > call.recommendation.recommendedStock
    /\ call.out.riskLevel = "Low"
    /\ RGt(call.out.impact.revenueIncrease, Num(0))

\* C26: in every reachable state of the dashboard, a whatIfResults displayed
\* together with a recommendation is the simulation of that recommendation at
\* the unit price of the selected product and the current positions of the two
\* sliders, never one of an earlier recommendation or of another product.
C26_WhatIfCurrent ==
    (WhatIfShown /\ whatIfResults # Null) =>
        whatIfResults = WhatIf(recommendation, selectedProduct, whatIfStock, whatIfDiscount)

\* C27: calculateBusinessImpact never reports both costSavings > 0 and
\* revenueIncrease > 0: with currentStock > 1.2 * recommendedStock there is no
\* stockout risk, so stockoutReduction = 95 and revenueIncrease = 0.
C27_SavingsOrRevenue ==
    Done("calculateBusinessImpact") =>
        /\ ~(RGt(call.out.costSavings, Num(0)) /\ RGt(call.out.revenueIncrease, Num(0)))
        /\ 10 * call.currentStock > 12 * call.recommendedStock =>
               /\ call.out.stockoutReduction = 95
               /\ call.out.revenueIncrease = Num(0)
        /\ RGt(call.out.costSavings, Num(0)) =>
               10 * call.currentStock > 12 * call.recommendedStock

\* an overstock just above 1.2 times a positive recommendation, with savings
C27_Witness ==
    /\ Done("calculateBusinessImpact")
    /\ call.recommendedStock = 10
    /\ call.currentStock = 13
    /\ call.out.stockoutReduction = 95
    /\ RGt(call.out.costSavings, Num(0))
    /\ call.out.revenueIncrease = Num(0)

\* the largest position of the discount slider
MaxDiscount == 50

\* C28: for a fixed recommendation and a fixed stock, a larger discount within
\* 0..50 never gives a lower adjustedDemand or adjustedRecommendedStock; a stock
\* that is High at a discount is High at every larger one, and a stock that is
\* not Medium at a discount is not Medium at any larger one.
C28_MonotoneInDiscount ==
    Done("runWhatIfSimulation") =>
        \A d2 \in call.whatIfDiscount..MaxDiscount :
            LET later == WhatIf(call.recommendation, call.product, call.whatIfStock, d2)
            IN  /\ later.adjustedDemand >= call.out.adjustedDemand
                /\ later.adjustedRecommendedStock >= call.out.adjustedRecommendedStock
                /\ call.out.riskLevel = "High" => later.riskLevel = "High"
                /\ call.out.riskLevel # "Medium" => later.riskLevel # "Medium"

\* a stock that is Low without a discount, High at 10 % and at 50 %
C28_Witness ==
    /\ Done("runWhatIfSimulation")
    /\ call.whatIfDiscount = 10
    /\ call.out.riskLevel = "High"
    /\ WhatIf(call.recommendation, call.product, call.whatIfStock, 0).riskLevel = "Low"
    /\ WhatIf(call.recommendation, call.product, call.whatIfStock, MaxDiscount).riskLevel = "High"
    /\ WhatIf(call.recommendation, call.product, call.whatIfStock, MaxDiscount).adjustedDemand
           > call.out.adjustedDemand

\* C29: from the acceptance of a Generate Forecast click, generating is true
\* exactly while the generation is in flight (in its delay or in its insert);
\* it returns to false once the delay and the insert have completed, whether
\* the insert reported an error or not; while generating is true the button
\* is disabled, so at most one generation is in flight.
C29_GeneratingUntilDone ==
    /\ [](generating <=> (Generating \cup Inserting) # {})
    /\ [](generating => ButtonDisabled)
    /\ [](Cardinality(Generating \cup Inserting) <= 1)
    /\ [][(last'.op = "generateForecast" /\ generating) => ~last'.accepted]_vars
    /\ (generating ~> ~generating)

\* a generation that ended with an insert reporting an error
C29_Witness ==
    /\ last = [op |-> "insert", ok |-> FALSE]
    /\ ~generating
    /\ audit.accepted = 1
    /\ Len(audit.inserts) = 1
    /\ forecasts = <<>>
    /\ pending = {}

\* C30: calculateInventoryRecommendation returns Medium (overstock) only when
\* currentStock is strictly greater than recommendedStock; a product with
\* currentStock = 0 is never Medium, whatever the forecast demand (>= 0) and
\* the confidence.
C30_MediumOnlyAbove ==
    Done("calculateInventoryRecommendation") =>
        /\ call.out.riskLevel = "Medium" => call.currentStock > call.out.recommendedStock
        /\ call.currentStock = 0 => call.out.riskLevel # "Medium"

\* the same for a positive recommended stock
C30_MediumAbovePositive ==
    (Done("calculateInventoryRecommendation") /\ call.out.recommendedStock > 0) =>
        C30_MediumOnlyAbove

====
